---- MODULE Spec2Model ----
(***************************************************************************)
(* A model of the keccak-const crate: the Keccak-f[1600] permutation       *)
(* (src/src/keccak.rs), the sponge context KeccakState with its absorb and  *)
(* pad-and-finalize operations, the squeeze cursor XofReader, and the       *)
(* hasher types the sha3! and shake! macros generate (src/src/lib.rs).      *)
(*                                                                         *)
(* Representation.  A byte (u8) is an integer 0..255.  The 200-byte State   *)
(* is a sequence of 200 bytes; Rust index i is TLA+ index i + 1.  A lane    *)
(* (u64) is a sequence of four 16-bit limbs, least significant first        *)
(* (value = l[1] + 2^16 l[2] + 2^32 l[3] + 2^48 l[4]), because TLC's        *)
(* integers are 32 bits wide.  The lane grid lanes[x][y] is a sequence of   *)
(* 25 lanes in Rust's memory order, lanes[x][y] at index 5x + y + 1.        *)
(***************************************************************************)
EXTENDS Integers, Sequences, FiniteSets

LANE_DIAM == 5
STATE_WIDTH == 200
PADDING_SHA3 == 6
PADDING_KECCAK == 1
PADDING_SHAKE == 31

(***************************************************************************)
(* Evaluation order.  TLC evaluates operator arguments lazily; Strict(v, e) *)
(* is e, evaluated after v, and Then(v, F) is F(v), evaluated after v: the   *)
(* statement sequence `let x = v; F(x)`.  While(Body, s, lo, hi) is the loop *)
(*     let mut i = lo; while i < hi { s = Body(s, i); i += 1 }              *)
(* run left to right; the index range is split in halves only to keep the   *)
(* evaluation stack shallow.  Unroll24 is the same loop for the fixed       *)
(* bounds 0 and 24.                                                         *)
(***************************************************************************)
Strict(v, e) == IF Len(<<v>>) = 1 THEN e ELSE e
Then(v, F(_)) == IF Len(<<v>>) = 1 THEN F(v) ELSE F(v)

RECURSIVE While(_, _, _, _)
While(Body(_, _), s, lo, hi) ==
  IF hi <= lo THEN s
  ELSE IF hi = lo + 1 THEN Body(s, lo)
  ELSE Then(While(Body, s, lo, (lo + hi) \div 2),
            LAMBDA left : While(Body, left, (lo + hi) \div 2, hi))

Unroll4(Body(_, _), s, t) == Body(Body(Body(Body(s, t), t + 1), t + 2), t + 3)

Unroll24(Body(_, _), s) ==
  Then(Then(Then(Then(Then(Unroll4(Body, s, 0),
                           LAMBDA s4 : Unroll4(Body, s4, 4)),
                      LAMBDA s8 : Unroll4(Body, s8, 8)),
                 LAMBDA s12 : Unroll4(Body, s12, 12)),
            LAMBDA s16 : Unroll4(Body, s16, 16)),
       LAMBDA s20 : Unroll4(Body, s20, 20))

(***************************************************************************)
(* Bitwise arithmetic on u8, on 16-bit limbs and on u64 lanes.              *)
(***************************************************************************)
Pow2Tab == <<1, 2, 4, 8, 16, 32, 64, 128, 256, 512, 1024, 2048, 4096, 8192, 16384, 32768, 65536>>
Pow2(k) == Pow2Tab[k + 1]
TestBit(n, k) == (n \div Pow2(k)) % 2 = 1
BitIf(c, k) == IF c THEN Pow2(k) ELSE 0

\* a ^ b and a & b on 4-bit values, bit by bit; tables indexed by a + 1, b + 1.
XorNib == [a \in 1..16 |-> [b \in 1..16 |->
             BitIf(TestBit(a - 1, 0) # TestBit(b - 1, 0), 0) + BitIf(TestBit(a - 1, 1) # TestBit(b - 1, 1), 1)
           + BitIf(TestBit(a - 1, 2) # TestBit(b - 1, 2), 2) + BitIf(TestBit(a - 1, 3) # TestBit(b - 1, 3), 3)] \o <<>>] \o <<>>
AndNib == [a \in 1..16 |-> [b \in 1..16 |->
             BitIf(TestBit(a - 1, 0) /\ TestBit(b - 1, 0), 0) + BitIf(TestBit(a - 1, 1) /\ TestBit(b - 1, 1), 1)
           + BitIf(TestBit(a - 1, 2) /\ TestBit(b - 1, 2), 2) + BitIf(TestBit(a - 1, 3) /\ TestBit(b - 1, 3), 3)] \o <<>>] \o <<>>
\* The same on bytes, a nibble at a time.
Xor8 == [a \in 1..256 |-> [b \in 1..256 |->
           16 * XorNib[((a - 1) \div 16) + 1][((b - 1) \div 16) + 1] + XorNib[((a - 1) % 16) + 1][((b - 1) % 16) + 1]] \o <<>>] \o <<>>
And8 == [a \in 1..256 |-> [b \in 1..256 |->
           16 * AndNib[((a - 1) \div 16) + 1][((b - 1) \div 16) + 1] + AndNib[((a - 1) % 16) + 1][((b - 1) % 16) + 1]] \o <<>>] \o <<>>

XorU8(a, b) == Xor8[a + 1][b + 1]
AndU8(a, b) == And8[a + 1][b + 1]
Xor16(a, b) == 256 * Xor8[(a \div 256) + 1][(b \div 256) + 1] + Xor8[(a % 256) + 1][(b % 256) + 1]
And16(a, b) == 256 * And8[(a \div 256) + 1][(b \div 256) + 1] + And8[(a % 256) + 1][(b % 256) + 1]

Xor64(a, b) == <<Xor16(a[1], b[1]), Xor16(a[2], b[2]), Xor16(a[3], b[3]), Xor16(a[4], b[4])>>
And64(a, b) == <<And16(a[1], b[1]), And16(a[2], b[2]), And16(a[3], b[3]), And16(a[4], b[4])>>
Not64(a) == <<65535 - a[1], 65535 - a[2], 65535 - a[3], 65535 - a[4]>>

\* u64::rotate_left(n): the rotation amount is taken modulo 64.  Limb i of the
\* result takes the low bits of limb i - q and the high bits of limb i - q - 1,
\* where n mod 64 = 16 q + r.
RotLimb(a, i, q, r) ==
  ((a[((i - q + 4) % 4) + 1] * Pow2(r)) % 65536) + (a[((i - q + 3) % 4) + 1] \div Pow2(16 - r))
rotate_left(a, n) ==
  LET q == (n % 64) \div 16
      r == n % 16
  IN <<RotLimb(a, 0, q, r), RotLimb(a, 1, q, r), RotLimb(a, 2, q, r), RotLimb(a, 3, q, r)>>

\* The larger of two integers.
Max(a, b) == IF a > b THEN a ELSE b

\* 1u64 << n, for n in 0..63.
Shl1(n) == <<BitIf(n \div 16 = 0, n % 16), BitIf(n \div 16 = 1, n % 16),
             BitIf(n \div 16 = 2, n % 16), BitIf(n \div 16 = 3, n % 16)>>

\* u64::from_le_bytes and u64::to_le_bytes: byte z of the buffer has weight 256^z.
from_le_bytes(buf) ==
  <<buf[1] + 256 * buf[2], buf[3] + 256 * buf[4], buf[5] + 256 * buf[6], buf[7] + 256 * buf[8]>>
to_le_bytes(v) ==
  <<v[1] % 256, v[1] \div 256, v[2] % 256, v[2] \div 256,
    v[3] % 256, v[3] \div 256, v[4] % 256, v[4] \div 256>>

(***************************************************************************)
(* keccak_f1600_on_lanes: 24 rounds of theta, rho/pi, chi, iota.            *)
(***************************************************************************)
L(x, y) == LANE_DIAM * x + y + 1

\* [faulty variant] theta column by column in place: d[x] is computed from
\* the lanes as the columns before x have left them.
ThetaColumn(lanes, x) ==
  LET c == [k \in 1..LANE_DIAM |->
              Xor64(Xor64(Xor64(Xor64(lanes[L(k - 1, 0)], lanes[L(k - 1, 1)]), lanes[L(k - 1, 2)]),
                          lanes[L(k - 1, 3)]), lanes[L(k - 1, 4)])] \o <<>>
      d == Xor64(c[((x + 4) % LANE_DIAM) + 1], rotate_left(c[((x + 1) % LANE_DIAM) + 1], 1))
  IN [i \in 1..(LANE_DIAM * LANE_DIAM) |->
        IF (i - 1) \div LANE_DIAM = x THEN Xor64(lanes[i], d) ELSE lanes[i]] \o <<>>
ThetaInPlace(lanes) ==
  ThetaColumn(ThetaColumn(ThetaColumn(ThetaColumn(ThetaColumn(lanes, 0), 1), 2), 3), 4)

\* theta: c[x] is the parity of column x, d[x] = c[x+4] ^ rotl(c[x+1], 1), and
\* every lane of column x is XORed with d[x].  c and d are complete before
\* any lane is written.
Theta(lanes) ==
  LET c == [x \in 1..LANE_DIAM |->
              Xor64(Xor64(Xor64(Xor64(lanes[L(x - 1, 0)], lanes[L(x - 1, 1)]), lanes[L(x - 1, 2)]),
                          lanes[L(x - 1, 3)]), lanes[L(x - 1, 4)])] \o <<>>
      d == [x \in 1..LANE_DIAM |->
              Xor64(c[((x - 1 + 4) % LANE_DIAM) + 1], rotate_left(c[((x - 1 + 1) % LANE_DIAM) + 1], 1))] \o <<>>
  IN [i \in 1..(LANE_DIAM * LANE_DIAM) |-> Xor64(lanes[i], d[((i - 1) \div LANE_DIAM) + 1])] \o <<>>

\* [faulty variant] the walk with rotation offset t (t + 1) / 2 at step t.
RhoPiStepOffsetT(s, t) ==
  Strict(s,
    LET x == s[3]
        y == (2 * s[2] + 3 * s[3]) % LANE_DIAM
    IN <<[s[1] EXCEPT ![L(x, y)] = rotate_left(s[4], (t * (t + 1)) \div 2)], x, y, s[1][L(x, y)]>>)

\* [faulty variant] the walk stepping to (y, (3x + 2y) mod 5).
RhoPiStepWalk32(s, t) ==
  Strict(s,
    LET x == s[3]
        y == (3 * s[2] + 2 * s[3]) % LANE_DIAM
    IN <<[s[1] EXCEPT ![L(x, y)] = rotate_left(s[4], ((t + 1) * (t + 2)) \div 2)], x, y, s[1][L(x, y)]>>)

\* [faulty variant] the rolling register is not replaced by the displaced lane.
RhoPiStepKeepCurrent(s, t) ==
  Strict(s,
    LET x == s[3]
        y == (2 * s[2] + 3 * s[3]) % LANE_DIAM
    IN <<[s[1] EXCEPT ![L(x, y)] = rotate_left(s[4], ((t + 1) * (t + 2)) \div 2)], x, y, s[4]>>)

\* rho and pi: one step of the walk.  s = <<lanes, x, y, current>>.
RhoPiStep(s, t) ==
  Strict(s,
    LET x == s[3]
        y == (2 * s[2] + 3 * s[3]) % LANE_DIAM
    IN <<[s[1] EXCEPT ![L(x, y)] = rotate_left(s[4], ((t + 1) * (t + 2)) \div 2)], x, y, s[1][L(x, y)]>>)
RhoPi(lanes) == Unroll24(RhoPiStep, <<lanes, 1, 0, lanes[L(1, 0)]>>)[1]

\* [faulty variant] chi without the complement: t[x] ^ (t[x+1] & t[x+2]).
ChiNoComplement(lanes) ==
  [i \in 1..(LANE_DIAM * LANE_DIAM) |->
     LET x == (i - 1) \div LANE_DIAM
         y == (i - 1) % LANE_DIAM
     IN Xor64(lanes[i], And64(lanes[L((x + 1) % 5, y)], lanes[L((x + 2) % 5, y)]))] \o <<>>

\* [faulty variant] chi rewriting each row in place, without the copy t: the
\* lanes at x = 3 and x = 4 read lanes of the row that are already rewritten.
ChiInPlace(lanes) ==
  [i \in 1..(LANE_DIAM * LANE_DIAM) |->
     LET x == (i - 1) \div LANE_DIAM
         y == (i - 1) % LANE_DIAM
         n0 == Xor64(lanes[L(0, y)], And64(Not64(lanes[L(1, y)]), lanes[L(2, y)]))
         n1 == Xor64(lanes[L(1, y)], And64(Not64(lanes[L(2, y)]), lanes[L(3, y)]))
     IN IF x < 3 THEN Xor64(lanes[i], And64(Not64(lanes[L((x + 1) % 5, y)]), lanes[L((x + 2) % 5, y)]))
        ELSE IF x = 3 THEN Xor64(lanes[i], And64(Not64(lanes[L(4, y)]), n0))
        ELSE Xor64(lanes[i], And64(Not64(n0), n1))] \o <<>>

\* chi: each row is rewritten from a copy t of the row.
Chi(lanes) ==
  [i \in 1..(LANE_DIAM * LANE_DIAM) |->
     LET x == (i - 1) \div LANE_DIAM
         y == (i - 1) % LANE_DIAM
     IN Xor64(lanes[i], And64(Not64(lanes[L((x + 1) % 5, y)]), lanes[L((x + 2) % 5, y)]))] \o <<>>

\* iota: one step of the LFSR.  s = <<lanes, r>>; r < 256, so r << 1 < 2^16.
\* [faulty variant] the LFSR with feedback polynomial 0x70 instead of 0x71.
IotaStepPoly70(s, j) ==
  LET r == Xor16(s[2] * 2, (s[2] \div 128) * 112) % 256
  IN <<IF AndU8(r, 2) # 0
       THEN [s[1] EXCEPT ![L(0, 0)] = Xor64(@, Shl1(Pow2(j) - 1))]
       ELSE s[1], r>>
IotaStep(s, j) ==
  LET r == Xor16(s[2] * 2, (s[2] \div 128) * 113) % 256
  IN <<IF AndU8(r, 2) # 0
       THEN [s[1] EXCEPT ![L(0, 0)] = Xor64(@, Shl1(Pow2(j) - 1))]
       ELSE s[1], r>>
\* [faulty variant] the LFSR seeded to 1 again in every round.
IotaReseeded(s) ==
  IotaStep(IotaStep(IotaStep(IotaStep(IotaStep(IotaStep(IotaStep(<<s[1], 1>>, 0), 1), 2), 3), 4), 5), 6)
Iota(s) == IotaStep(IotaStep(IotaStep(IotaStep(IotaStep(IotaStep(IotaStep(s, 0), 1), 2), 3), 4), 5), 6)

\* One round.  s = <<lanes, r>>.
Round(s, round) ==
  Strict(s, Then(Then(Then(Theta(s[1]), RhoPi), Chi), LAMBDA lanes : Iota(<<lanes, s[2]>>)))

keccak_f1600_on_lanes(lanes) == Unroll24(Round, <<lanes, 1>>)[1]

\* keccak_f1600: bytes to lanes, the rounds, lanes to bytes.
LanesOf(state) ==
  [i \in 1..(LANE_DIAM * LANE_DIAM) |->
     LET x == (i - 1) \div LANE_DIAM
         y == (i - 1) % LANE_DIAM
         start == 8 * (x + LANE_DIAM * y)
     IN from_le_bytes(SubSeq(state, start + 1, start + 8))] \o <<>>
\* [faulty variant] the lanes written back at offset 8 * (LANE_DIAM * x + y).
BytesOfRowMajor(lanes) ==
  LET buf == [i \in 1..(LANE_DIAM * LANE_DIAM) |-> to_le_bytes(lanes[i])] \o <<>>
  IN [p \in 1..STATE_WIDTH |->
        LET q == (p - 1) \div 8
        IN buf[L(q \div LANE_DIAM, q % LANE_DIAM)][((p - 1) % 8) + 1]] \o <<>>
BytesOf(lanes) ==
  LET buf == [i \in 1..(LANE_DIAM * LANE_DIAM) |-> to_le_bytes(lanes[i])] \o <<>>
  IN [p \in 1..STATE_WIDTH |->
        LET q == (p - 1) \div 8
        IN buf[L(q % LANE_DIAM, q \div LANE_DIAM)][((p - 1) % 8) + 1]] \o <<>>
keccak_f1600(state) == Then(Then(LanesOf(state), keccak_f1600_on_lanes), BytesOf)

(***************************************************************************)
(* KeccakState: the sponge context, a record of the struct's four fields.   *)
(***************************************************************************)
\* [faulty variant] the rate computed as STATE_WIDTH - security_bits / 8.
KeccakState_newEighth(security_bits, delimiter) ==
  [rate_in_bytes |-> STATE_WIDTH - security_bits \div 8,
   delimiter     |-> delimiter,
   state         |-> [i \in 1..STATE_WIDTH |-> 0] \o <<>>,
   pos           |-> 0]

\* [faulty variant] a rate that does not depend on security_bits.
KeccakState_newFixedRate(security_bits, delimiter) ==
  [rate_in_bytes |-> STATE_WIDTH - 256 \div 4,
   delimiter     |-> delimiter,
   state         |-> [i \in 1..STATE_WIDTH |-> 0] \o <<>>,
   pos           |-> 0]

KeccakState_new(security_bits, delimiter) ==
  [rate_in_bytes |-> STATE_WIDTH - security_bits \div 4,
   delimiter     |-> delimiter,
   state         |-> [i \in 1..STATE_WIDTH |-> 0] \o <<>>,
   pos           |-> 0]

\* One iteration of update's loop (keccak.rs 59-65).  s.self is the context,
\* s.perms counts the calls of keccak_f1600 made so far by this call and
\* s.top is the highest index at which the call has indexed self.state so far
\* (-1 before the first); the iteration indexes it at the position it finds.
\* [faulty variant] the input byte overwrites state[pos] instead of being XORed in.
UpdateXorAssign(self, byte) ==
  [self EXCEPT !.state[self.pos + 1] = byte, !.pos = @ + 1]
UpdateXor(self, byte) ==
  [self EXCEPT !.state[self.pos + 1] = XorU8(@, byte), !.pos = @ + 1]
\* [faulty variant] the block is permuted one byte late, so pos rests at the rate.
UpdateWrapLate(s, self) ==
  IF self.pos = self.rate_in_bytes + 1
  THEN [self  |-> [self EXCEPT !.state = keccak_f1600(self.state), !.pos = 0],
        perms |-> s.perms + 1, top |-> Max(s.top, s.self.pos)]
  ELSE [self |-> self, perms |-> s.perms, top |-> Max(s.top, s.self.pos)]
UpdateWrap(s, self) ==
  IF self.pos = self.rate_in_bytes
  THEN [self  |-> [self EXCEPT !.state = keccak_f1600(self.state), !.pos = 0],
        perms |-> s.perms + 1, top |-> Max(s.top, s.self.pos)]
  ELSE [self |-> self, perms |-> s.perms, top |-> Max(s.top, s.self.pos)]
UpdateByte(s, input, i) ==
  Then(UpdateXor(s.self, input[i + 1]), LAMBDA self : UpdateWrap(s, self))

\* [faulty variant] every update call starts writing at position 0.
KeccakState_updateFromZero(self, input) ==
  While(LAMBDA s, i : Strict(s, UpdateByte(s, input, i)),
        [self |-> [self EXCEPT !.pos = 0], perms |-> 0, top |-> -1], 0, Len(input))

\* update(mut self, input) -> Self, with the number of permutations it ran
\* and the highest state index it used.
KeccakState_update(self, input) ==
  While(LAMBDA s, i : Strict(s, UpdateByte(s, input, i)),
        [self |-> self, perms |-> 0, top |-> -1], 0, Len(input))

\* [faulty variant] the extra permutation taken at pos == rate_in_bytes.
PadNeedsBlockAtRate(delimiter, pos, rate_in_bytes) ==
  AndU8(delimiter, 128) # 0 /\ pos = rate_in_bytes

\* [faulty variant] the extra permutation taken at pos == rate_in_bytes - 1
\* whatever the delimiter.
PadNeedsBlockAnyDelimiter(delimiter, pos, rate_in_bytes) ==
  pos = rate_in_bytes - 1

\* The condition of finalize's extra permutation (keccak.rs 81).
PadNeedsBlock(delimiter, pos, rate_in_bytes) ==
  AndU8(delimiter, 128) # 0 /\ pos = rate_in_bytes - 1

\* finalize(&self) -> XofReader.  The fields are copied out of *self and only
\* the copy `state` is written: PadDelimiter is line 80, PadBlock lines 81-83,
\* PadClose line 84 and PadPermute line 85.  In the result, `self` is the
\* context as the call leaves it, `perms` the number of permutations run and
\* `top` the higher of the two indexes used, pos (line 80) and
\* rate_in_bytes - 1 (line 84).
PadDelimiter(self) ==
  [self.state EXCEPT ![self.pos + 1] = XorU8(@, self.delimiter)]
PadBlock(self, state) ==
  IF PadNeedsBlock(self.delimiter, self.pos, self.rate_in_bytes)
  THEN keccak_f1600(state)
  ELSE state
\* [faulty variant] the closing bit XORed into state[rate_in_bytes], the first
\* byte of the capacity.
PadCloseAtRate(self, state) ==
  [state EXCEPT ![self.rate_in_bytes + 1] = XorU8(@, 128)]
PadClose(self, state) ==
  [state EXCEPT ![(self.rate_in_bytes - 1) + 1] = XorU8(@, 128)]
\* [faulty variant] finalize writing the permuted state back into *self.
PadPermuteInPlace(self, state) ==
  [reader |-> [state |-> keccak_f1600(state), rate_in_bytes |-> self.rate_in_bytes, pos |-> 0],
   self   |-> [self EXCEPT !.state = keccak_f1600(state)],
   perms  |-> IF PadNeedsBlock(self.delimiter, self.pos, self.rate_in_bytes) THEN 2 ELSE 1,
   top    |-> Max(self.pos, self.rate_in_bytes - 1)]
PadPermute(self, state) ==
  [reader |-> [state |-> keccak_f1600(state), rate_in_bytes |-> self.rate_in_bytes, pos |-> 0],
   self   |-> self,
   perms  |-> IF PadNeedsBlock(self.delimiter, self.pos, self.rate_in_bytes) THEN 2 ELSE 1,
   top    |-> Max(self.pos, self.rate_in_bytes - 1)]
KeccakState_finalize(self) ==
  Then(Then(Then(PadDelimiter(self),
                 LAMBDA state : PadBlock(self, state)),
            LAMBDA state : PadClose(self, state)),
       LAMBDA state : PadPermute(self, state))

(***************************************************************************)
(* XofReader: the squeeze cursor.                                           *)
(***************************************************************************)
\* One iteration of read's loop (keccak.rs 23-29).  s.self is the cursor,
\* s.buf the output array, s.perms the calls of keccak_f1600 made so far and
\* s.top the highest index at which self.state was indexed so far.
\* [faulty variant] the block is permuted one byte late.
ReadByteLate(s, i) ==
  IF s.self.pos + 1 = s.self.rate_in_bytes + 1
  THEN [self  |-> [s.self EXCEPT !.state = keccak_f1600(s.self.state), !.pos = 0],
        buf   |-> [s.buf EXCEPT ![i + 1] = s.self.state[s.self.pos + 1]],
        perms |-> s.perms + 1, top |-> Max(s.top, s.self.pos)]
  ELSE [self  |-> [s.self EXCEPT !.pos = @ + 1],
        buf   |-> [s.buf EXCEPT ![i + 1] = s.self.state[s.self.pos + 1]],
        perms |-> s.perms, top |-> Max(s.top, s.self.pos)]
\* [faulty variant] the position wraps at the rate but the block is not permuted.
ReadByteRepeat(s, i) ==
  IF s.self.pos + 1 = s.self.rate_in_bytes
  THEN [self  |-> [s.self EXCEPT !.pos = 0],
        buf   |-> [s.buf EXCEPT ![i + 1] = s.self.state[s.self.pos + 1]],
        perms |-> s.perms, top |-> Max(s.top, s.self.pos)]
  ELSE [self  |-> [s.self EXCEPT !.pos = @ + 1],
        buf   |-> [s.buf EXCEPT ![i + 1] = s.self.state[s.self.pos + 1]],
        perms |-> s.perms, top |-> Max(s.top, s.self.pos)]
ReadByte(s, i) ==
  IF s.self.pos + 1 = s.self.rate_in_bytes
  THEN [self  |-> [s.self EXCEPT !.state = keccak_f1600(s.self.state), !.pos = 0],
        buf   |-> [s.buf EXCEPT ![i + 1] = s.self.state[s.self.pos + 1]],
        perms |-> s.perms + 1, top |-> Max(s.top, s.self.pos)]
  ELSE [self  |-> [s.self EXCEPT !.pos = @ + 1],
        buf   |-> [s.buf EXCEPT ![i + 1] = s.self.state[s.self.pos + 1]],
        perms |-> s.perms, top |-> Max(s.top, s.self.pos)]

\* [faulty variant] every read call starts at position 0 of the block.
XofReader_readFromZero(self, N) ==
  While(LAMBDA s, i : Strict(s, ReadByte(s, i)),
        [self |-> [self EXCEPT !.pos = 0], buf |-> [k \in 1..N |-> 0] \o <<>>, perms |-> 0, top |-> -1], 0, N)

\* read::<N>(mut self) -> (Self, [u8; N]).
XofReader_read(self, N) ==
  While(LAMBDA s, i : Strict(s, ReadByte(s, i)),
        [self |-> self, buf |-> [k \in 1..N |-> 0] \o <<>>, perms |-> 0, top |-> -1], 0, N)

(***************************************************************************)
(* The hashers of lib.rs.  A hasher is the struct { state: KeccakState }.   *)
(***************************************************************************)
sha3_new(security, padding) == [state |-> KeccakState_new(security, padding)]
shake_new(security) == [state |-> KeccakState_new(security, PADDING_SHAKE)]

\* update(mut self, input) of both macros: self.state = self.state.update(input).
hasher_update(self, input) ==
  Then(KeccakState_update(self.state, input),
       LAMBDA u : [self |-> [self EXCEPT !.state = u.self], perms |-> u.perms, top |-> u.top])

\* [faulty variant] a digest of as many bytes as the security level has bits.
sha3_output_lenBits(security) == security

\* [faulty variant] a digest of security / 4 bytes.
sha3_output_lenQuarter(security) == security \div 4

\* The length of the fixed digest, { $security / 8 } (lib.rs 94, 96).
sha3_output_len(security) == security \div 8

\* sha3! finalize(&self) -> [u8; $security / 8].  In the result, `reader` is
\* the cursor that self.state.finalize() returned, before the read.
sha3_finalize(self, security) ==
  Then(KeccakState_finalize(self.state), LAMBDA fin :
  Then(XofReader_read(fin.reader, sha3_output_len(security)), LAMBDA rd :
    [output |-> rd.buf, self |-> [self EXCEPT !.state = fin.self],
     reader |-> fin.reader, perms |-> fin.perms, readPerms |-> rd.perms,
     top |-> Max(fin.top, rd.top)]))

\* [faulty variant] finalize_xof switching the hasher's own context to the
\* squeezing phase: the padded and permuted state is left in self.
shake_finalize_xofInPlace(self) ==
  Then(KeccakState_finalize(self.state), LAMBDA fin :
    [reader |-> fin.reader, self |-> [self EXCEPT !.state.state = fin.reader.state],
     perms |-> fin.perms, top |-> fin.top])

\* shake! finalize_xof(&self) -> XofReader.
shake_finalize_xof(self) ==
  Then(KeccakState_finalize(self.state), LAMBDA fin :
    [reader |-> fin.reader, self |-> [self EXCEPT !.state = fin.self], perms |-> fin.perms,
     top |-> fin.top])

\* shake! finalize::<N>(&self) -> [u8; N].
shake_finalize(self, N) ==
  Then(shake_finalize_xof(self), LAMBDA fin :
  Then(XofReader_read(fin.reader, N), LAMBDA rd :
    [output |-> rd.buf, self |-> fin.self,
     reader |-> fin.reader, perms |-> fin.perms, readPerms |-> rd.perms,
     top |-> Max(fin.top, rd.top)]))

(***************************************************************************)
(* The configurations.  The ten hashers lib.rs instantiates, and one        *)
(* KeccakState built directly by KeccakState::new, as code inside the crate *)
(* can, with a delimiter whose top bit is set (none of the ten has one).    *)
(***************************************************************************)
Sha3Variants ==
  {[name |-> "Sha3_224", macro |-> "sha3", security |-> 224, padding |-> PADDING_SHA3],
   [name |-> "Sha3_256", macro |-> "sha3", security |-> 256, padding |-> PADDING_SHA3],
   [name |-> "Sha3_384", macro |-> "sha3", security |-> 384, padding |-> PADDING_SHA3],
   [name |-> "Sha3_512", macro |-> "sha3", security |-> 512, padding |-> PADDING_SHA3],
   [name |-> "Keccak224", macro |-> "sha3", security |-> 224, padding |-> PADDING_KECCAK],
   [name |-> "Keccak256", macro |-> "sha3", security |-> 256, padding |-> PADDING_KECCAK],
   [name |-> "Keccak384", macro |-> "sha3", security |-> 384, padding |-> PADDING_KECCAK],
   [name |-> "Keccak512", macro |-> "sha3", security |-> 512, padding |-> PADDING_KECCAK]}
ShakeVariants ==
  {[name |-> "Shake128", macro |-> "shake", security |-> 128, padding |-> PADDING_SHAKE],
   [name |-> "Shake256", macro |-> "shake", security |-> 256, padding |-> PADDING_SHAKE]}
CoreVariants ==
  {[name |-> "KeccakState", macro |-> "none", security |-> 512, padding |-> 128 + PADDING_SHA3]}
Variants == Sha3Variants \cup ShakeVariants \cup CoreVariants

\* $name::new() of the variant's macro.
Construct(var) ==
  IF var.macro = "sha3" THEN sha3_new(var.security, var.padding)
  ELSE IF var.macro = "shake" THEN shake_new(var.security)
  ELSE [state |-> KeccakState_new(var.security, var.padding)]

(***************************************************************************)
(* Inputs.  Every hasher is offered the empty chunk, a one-byte chunk and a *)
(* chunk one byte short of its rate, so that two chunks end before, on and  *)
(* after a block boundary.  Sha3_256 and Shake256 are also offered the      *)
(* messages of the known-answer vectors.                                    *)
(***************************************************************************)
MaxUpdates == 2
MaxReads == 2

Pattern(n) == [k \in 1..n |-> (7 * k + 3) % 256] \o <<>>

Fox1 == <<84, 104, 101, 32, 113, 117, 105, 99, 107, 32, 98, 114, 111, 119, 110, 32, 102, 111, 120, 32>>
Fox2 == <<106, 117, 109, 112, 115, 32, 111, 118, 101, 114, 32, 116, 104, 101, 32, 108, 97, 122, 121, 32, 100, 111, 103>>
Fox == Fox1 \o Fox2
Rescue == <<82, 101, 115, 99, 117, 101, 45, 88, 76, 73, 88>>

Sha3_256_Fox ==
  <<105, 7, 13, 218, 1, 151, 92, 140, 18, 12, 58, 173, 161, 178, 130, 57,
    78, 127, 3, 47, 169, 207, 50, 244, 203, 34, 89, 160, 137, 125, 252, 4>>
Keccak224_Empty ==
  <<247, 24, 55, 80, 43, 168, 225, 8, 55, 189, 216, 211, 101, 173,
    184, 85, 145, 137, 86, 2, 252, 85, 43, 72, 183, 57, 10, 189>>
Keccak256_Empty ==
  <<197, 210, 70, 1, 134, 247, 35, 60, 146, 126, 125, 178, 220, 199, 3, 192,
    229, 0, 182, 83, 202, 130, 39, 59, 123, 250, 216, 4, 93, 133, 164, 112>>
Keccak512_Empty ==
  <<14, 171, 66, 222, 76, 60, 235, 146, 53, 252, 145, 172, 255, 231, 70, 178,
    156, 41, 168, 195, 102, 183, 198, 14, 78, 103, 196, 102, 243, 106, 67, 4,
    192, 15, 169, 202, 249, 216, 121, 118, 186, 70, 155, 203, 224, 103, 19, 180,
    53, 240, 145, 239, 39, 105, 251, 22, 12, 218, 179, 61, 54, 112, 104, 14>>
Shake256_Rescue ==
  <<192, 33, 251, 3, 222, 123, 6, 0, 132, 72>>

Inputs(name, rate) ==
  {Pattern(0), Pattern(1), Pattern(rate - 1)}
    \cup (IF name = "Sha3_256" THEN {Fox1, Fox2, Fox} ELSE {})
    \cup (IF name = "Shake256" THEN {Rescue} ELSE {})

\* Read lengths: the length of the SHAKE256 vector, and a whole block.
ReadLens(rate) == {Len(Shake256_Rescue), rate}
\* Lengths N of shake! finalize::<N>.
DigestLens == {Len(Shake256_Rescue)}

(***************************************************************************)
(* The state machine: one hasher, built by Init, then updated, finalized    *)
(* and (if it yields a cursor) read.                                        *)
(*   variant   the configuration chosen at construction                     *)
(*   hasher    the hasher struct { state: KeccakState }                     *)
(*   reader    the XofReader the program holds (NoReader before finalize)   *)
(*   digest    the array a digest-returning finalize returned (<<>> before) *)
(* and, kept only to state properties:                                      *)
(*   absorbed  the concatenation of the inputs of all update calls          *)
(*   nUpdates  the number of update calls                                   *)
(*   fresh     the cursor as KeccakState::finalize last returned it         *)
(*   out       the concatenation of the arrays read from `reader`           *)
(*   nReads    the number of read calls on `reader`                         *)
(*   perms     calls of keccak_f1600 made by update calls (absorb), by the  *)
(*             last finalize (finalize) and by reads on `reader` (squeeze)  *)
(*   maxIndex  the highest index at which any call so far has indexed a     *)
(*             State array (-1 before the first)                            *)
(*   last      the last operation                                           *)
(* A second cursor derived from the same context, and one run of            *)
(* keccak_f1600_on_lanes taken stage by stage, have their own variables:    *)
(*   other     the second cursor, the bytes read from it and the number of  *)
(*             read calls on it                                             *)
(*   perm      the locals of keccak_f1600_on_lanes: lanes, r, round, and    *)
(*             x, y, current, t of the rho/pi walk; stage is the stage to   *)
(*             run next and input the argument of the call; kept only to    *)
(*             state properties, before is the lanes as the rho/pi walk of  *)
(*             the round found them and visited the positions (x, y) the    *)
(*             walk has written, in order                                   *)
(* The model takes update calls only before the first finalize, and at most *)
(* two finalize calls in a row.                                             *)
(***************************************************************************)
VARIABLES variant, hasher, reader, digest, absorbed, nUpdates, fresh, out, nReads, perms, last,
          maxIndex, other, perm
vars == <<variant, hasher, reader, digest, absorbed, nUpdates, fresh, out, nReads, perms, last,
          maxIndex, other, perm>>

NoReader == [state |-> <<>>, rate_in_bytes |-> 0, pos |-> 0]
NoOther == [reader |-> NoReader, out |-> <<>>, nReads |-> 0]
NoPerm == [stage |-> "idle", input |-> <<>>, lanes |-> <<>>, r |-> 0, round |-> 0,
           x |-> 0, y |-> 0, current |-> <<>>, t |-> 0, before |-> <<>>, visited |-> <<>>]

Init ==
  /\ variant \in Variants
  /\ hasher = Construct(variant)
  /\ reader = NoReader
  /\ digest = <<>>
  /\ absorbed = <<>>
  /\ nUpdates = 0
  /\ fresh = NoReader
  /\ out = <<>>
  /\ nReads = 0
  /\ perms = [absorb |-> 0, finalize |-> 0, squeeze |-> 0]
  /\ last = "new"
  /\ maxIndex = -1
  /\ other = NoOther
  /\ perm = NoPerm

\* hasher = hasher.update(input)
Update ==
  /\ last \in {"new", "update"}
  /\ nUpdates < MaxUpdates
  /\ \E input \in Inputs(variant.name, hasher.state.rate_in_bytes) :
       /\ absorbed' = absorbed \o input
       /\ Then(hasher_update(hasher, input), LAMBDA u :
            /\ hasher' = u.self
            /\ perms' = [perms EXCEPT !.absorb = @ + u.perms]
            /\ maxIndex' = Max(maxIndex, u.top))
  /\ nUpdates' = nUpdates + 1
  /\ last' = "update"
  /\ UNCHANGED <<variant, reader, digest, fresh, out, nReads, other, perm>>

\* digest = hasher.finalize(), for a hasher of sha3!
Sha3Finalize ==
  /\ variant.macro = "sha3"
  /\ last \in {"new", "update"}
  /\ Then(sha3_finalize(hasher, variant.security), LAMBDA f :
       /\ hasher' = f.self
       /\ digest' = f.output
       /\ fresh' = f.reader
       /\ perms' = [perms EXCEPT !.finalize = f.perms, !.squeeze = f.readPerms]
       /\ maxIndex' = Max(maxIndex, f.top))
  /\ last' = "digest"
  /\ UNCHANGED <<variant, reader, absorbed, nUpdates, out, nReads, other, perm>>

\* digest = hasher.finalize::<N>(), for a hasher of shake!
ShakeFinalize ==
  /\ variant.macro = "shake"
  /\ last \in {"new", "update"}
  /\ \E N \in DigestLens :
       Then(shake_finalize(hasher, N), LAMBDA f :
         /\ hasher' = f.self
         /\ digest' = f.output
         /\ fresh' = f.reader
         /\ perms' = [perms EXCEPT !.finalize = f.perms, !.squeeze = f.readPerms]
         /\ maxIndex' = Max(maxIndex, f.top))
  /\ last' = "digest"
  /\ UNCHANGED <<variant, reader, absorbed, nUpdates, out, nReads, other, perm>>

\* reader = hasher.finalize_xof(), for a hasher of shake!; a second call right
\* after the first replaces the cursor.
ShakeFinalizeXof ==
  /\ variant.macro = "shake"
  /\ last \in {"new", "update", "finalize"}
  /\ Then(shake_finalize_xof(hasher), LAMBDA f :
       /\ hasher' = f.self
       /\ reader' = f.reader
       /\ fresh' = f.reader
       /\ perms' = [perms EXCEPT !.finalize = f.perms]
       /\ maxIndex' = Max(maxIndex, f.top))
  /\ last' = IF last = "finalize" THEN "refinalize" ELSE "finalize"
  /\ UNCHANGED <<variant, digest, absorbed, nUpdates, out, nReads, other, perm>>

\* reader = state.finalize(), for the KeccakState used directly.
KeccakFinalize ==
  /\ variant.macro = "none"
  /\ last \in {"new", "update", "finalize"}
  /\ Then(KeccakState_finalize(hasher.state), LAMBDA f :
       /\ hasher' = [hasher EXCEPT !.state = f.self]
       /\ reader' = f.reader
       /\ fresh' = f.reader
       /\ perms' = [perms EXCEPT !.finalize = f.perms]
       /\ maxIndex' = Max(maxIndex, f.top))
  /\ last' = IF last = "finalize" THEN "refinalize" ELSE "finalize"
  /\ UNCHANGED <<variant, digest, absorbed, nUpdates, out, nReads, other, perm>>

\* (reader, buf) = reader.read::<n>()
Read ==
  /\ reader # NoReader
  /\ nReads < MaxReads
  /\ \E n \in ReadLens(reader.rate_in_bytes) :
       Then(XofReader_read(reader, n), LAMBDA r :
         /\ reader' = r.self
         /\ out' = out \o r.buf
         /\ perms' = [perms EXCEPT !.squeeze = @ + r.perms]
         /\ maxIndex' = Max(maxIndex, r.top))
  /\ nReads' = nReads + 1
  /\ last' = "read"
  /\ UNCHANGED <<variant, hasher, digest, absorbed, nUpdates, fresh, other, perm>>

Next ==
  \/ Update
  \/ Sha3Finalize
  \/ ShakeFinalize
  \/ ShakeFinalizeXof
  \/ KeccakFinalize
  \/ Read

Spec == Init /\ [][Next]_vars

\* The absorbing side alone: update and finalize calls, no read on a cursor.
NextAbsorb ==
  \/ Update
  \/ Sha3Finalize
  \/ ShakeFinalize
  \/ ShakeFinalizeXof
  \/ KeccakFinalize

SpecAbsorb == Init /\ [][NextAbsorb]_vars

\* The squeezing side alone: a hasher that yields a cursor and has absorbed
\* one message in one update call is finalized and read.  Beside the chunks of
\* Inputs the message may be a whole block, or a block and a byte.
Messages(name, rate) == Inputs(name, rate) \cup {Pattern(rate), Pattern(rate + 1)}

InitSqueeze ==
  /\ variant \in ShakeVariants \cup CoreVariants
  /\ absorbed \in Messages(variant.name, Construct(variant).state.rate_in_bytes)
  /\ hasher = hasher_update(Construct(variant), absorbed).self
  /\ perms = [absorb |-> hasher_update(Construct(variant), absorbed).perms, finalize |-> 0, squeeze |-> 0]
  /\ reader = NoReader
  /\ digest = <<>>
  /\ nUpdates = 1
  /\ fresh = NoReader
  /\ out = <<>>
  /\ nReads = 0
  /\ last = "update"
  /\ maxIndex = hasher_update(Construct(variant), absorbed).top
  /\ other = NoOther
  /\ perm = NoPerm

NextSqueeze ==
  \/ ShakeFinalizeXof
  \/ KeccakFinalize
  \/ Read

SpecSqueeze == InitSqueeze /\ [][NextSqueeze]_vars

\* Two cursors on one context.  After the first finalize call a second one
\* derives another cursor from the same context, and read calls on the two
\* cursors interleave in any order.
\* other = hasher.finalize_xof(), for a hasher of shake!
ShakeFinalizeXofOther ==
  /\ variant.macro = "shake"
  /\ reader # NoReader
  /\ other = NoOther
  /\ Then(shake_finalize_xof(hasher), LAMBDA f :
       /\ hasher' = f.self
       /\ other' = [reader |-> f.reader, out |-> <<>>, nReads |-> 0]
       /\ perms' = [perms EXCEPT !.finalize = f.perms]
       /\ maxIndex' = Max(maxIndex, f.top))
  /\ last' = "derive"
  /\ UNCHANGED <<variant, reader, digest, absorbed, nUpdates, fresh, out, nReads, perm>>

\* other = state.finalize(), for the KeccakState used directly.
KeccakFinalizeOther ==
  /\ variant.macro = "none"
  /\ reader # NoReader
  /\ other = NoOther
  /\ Then(KeccakState_finalize(hasher.state), LAMBDA f :
       /\ hasher' = [hasher EXCEPT !.state = f.self]
       /\ other' = [reader |-> f.reader, out |-> <<>>, nReads |-> 0]
       /\ perms' = [perms EXCEPT !.finalize = f.perms]
       /\ maxIndex' = Max(maxIndex, f.top))
  /\ last' = "derive"
  /\ UNCHANGED <<variant, reader, digest, absorbed, nUpdates, fresh, out, nReads, perm>>

\* (other, buf) = other.read::<n>()
ReadOther ==
  /\ other # NoOther
  /\ other.nReads < MaxReads
  /\ \E n \in ReadLens(other.reader.rate_in_bytes) :
       Then(XofReader_read(other.reader, n), LAMBDA r :
         /\ other' = [reader |-> r.self, out |-> other.out \o r.buf, nReads |-> other.nReads + 1]
         /\ maxIndex' = Max(maxIndex, r.top))
  /\ last' = "readother"
  /\ UNCHANGED <<variant, hasher, reader, digest, absorbed, nUpdates, fresh, out, nReads, perms, perm>>

\* The message absorbed before the cursors are derived: a block and a byte.
CursorMessages(rate) == {Pattern(rate + 1)}

InitCursors ==
  /\ variant \in ShakeVariants \cup CoreVariants
  /\ absorbed \in CursorMessages(Construct(variant).state.rate_in_bytes)
  /\ hasher = hasher_update(Construct(variant), absorbed).self
  /\ perms = [absorb |-> hasher_update(Construct(variant), absorbed).perms, finalize |-> 0, squeeze |-> 0]
  /\ reader = NoReader
  /\ digest = <<>>
  /\ nUpdates = 1
  /\ fresh = NoReader
  /\ out = <<>>
  /\ nReads = 0
  /\ last = "update"
  /\ maxIndex = hasher_update(Construct(variant), absorbed).top
  /\ other = NoOther
  /\ perm = NoPerm

NextCursors ==
  \/ ShakeFinalizeXof
  \/ KeccakFinalize
  \/ Read
  \/ ShakeFinalizeXofOther
  \/ KeccakFinalizeOther
  \/ ReadOther

SpecCursors == InitCursors /\ [][NextCursors]_vars

\* One call of keccak_f1600_on_lanes taken stage by stage: the call finalize
\* makes on line 85, on the padded block of a hasher that has absorbed a short
\* message.  perm holds the function's locals; each action runs the stage
\* perm.stage names, rho/pi one step of its loop at a time.
RoundVariants == {v \in Sha3Variants \cup ShakeVariants : v.security = 256}
RoundMessages == {Pattern(0), Pattern(9)}
PaddedBlock(ctx) == PadClose(ctx, PadBlock(ctx, PadDelimiter(ctx)))

InitRounds ==
  /\ variant \in RoundVariants
  /\ absorbed \in RoundMessages
  /\ hasher = hasher_update(Construct(variant), absorbed).self
  /\ perms = [absorb |-> hasher_update(Construct(variant), absorbed).perms, finalize |-> 0, squeeze |-> 0]
  /\ reader = NoReader
  /\ digest = <<>>
  /\ nUpdates = 1
  /\ fresh = NoReader
  /\ out = <<>>
  /\ nReads = 0
  /\ last = "update"
  /\ maxIndex = hasher_update(Construct(variant), absorbed).top
  /\ other = NoOther
  /\ perm = [stage |-> "theta", input |-> LanesOf(PaddedBlock(hasher.state)),
             lanes |-> LanesOf(PaddedBlock(hasher.state)), r |-> 1, round |-> 0,
             x |-> 0, y |-> 0, current |-> <<0, 0, 0, 0>>, t |-> 0,
             before |-> <<>>, visited |-> <<>>]

\* theta, and the initialisation of the rho/pi walk (lines 163-166).
ThetaStage ==
  /\ perm.stage = "theta"
  /\ Then(Theta(perm.lanes), LAMBDA lanes :
       perm' = [perm EXCEPT !.lanes = lanes, !.x = 1, !.y = 0, !.current = lanes[L(1, 0)],
                            !.t = 0, !.stage = "rhopi", !.before = lanes, !.visited = <<>>])
  /\ UNCHANGED <<variant, hasher, reader, digest, absorbed, nUpdates, fresh, out, nReads, perms,
                 last, maxIndex, other>>

\* One iteration of the rho/pi loop.
RhoPiStage ==
  /\ perm.stage = "rhopi"
  /\ Then(RhoPiStep(<<perm.lanes, perm.x, perm.y, perm.current>>, perm.t), LAMBDA s :
       perm' = [perm EXCEPT !.lanes = s[1], !.x = s[2], !.y = s[3], !.current = s[4],
                            !.t = perm.t + 1,
                            !.stage = IF perm.t + 1 < 24 THEN "rhopi" ELSE "chi",
                            !.visited = Append(perm.visited, <<s[2], s[3]>>)])
  /\ UNCHANGED <<variant, hasher, reader, digest, absorbed, nUpdates, fresh, out, nReads, perms,
                 last, maxIndex, other>>

ChiStage ==
  /\ perm.stage = "chi"
  /\ perm' = [perm EXCEPT !.lanes = Chi(perm.lanes), !.stage = "iota"]
  /\ UNCHANGED <<variant, hasher, reader, digest, absorbed, nUpdates, fresh, out, nReads, perms,
                 last, maxIndex, other>>

\* iota, and the end of the round (lines 197, 135).
IotaStage ==
  /\ perm.stage = "iota"
  /\ Then(Iota(<<perm.lanes, perm.r>>), LAMBDA s :
       perm' = [perm EXCEPT !.lanes = s[1], !.r = s[2], !.round = perm.round + 1,
                            !.stage = IF perm.round + 1 < 24 THEN "theta" ELSE "done"])
  /\ UNCHANGED <<variant, hasher, reader, digest, absorbed, nUpdates, fresh, out, nReads, perms,
                 last, maxIndex, other>>

NextRounds ==
  \/ ThetaStage
  \/ RhoPiStage
  \/ ChiStage
  \/ IotaStage

SpecRounds == InitRounds /\ [][NextRounds]_vars

\* Finalizing after one message.  Each of the ten hashers has absorbed, in one
\* update call, a message that ends at, just before or just after a block
\* boundary: 0, 1, rate - 2, rate - 1, rate, rate + 1 or 2 * rate - 1 bytes.
DigestMessages(rate) ==
  {Pattern(0), Pattern(1), Pattern(rate - 2), Pattern(rate - 1), Pattern(rate),
   Pattern(rate + 1), Pattern(2 * rate - 1)}

InitDigest ==
  /\ variant \in Sha3Variants \cup ShakeVariants
  /\ absorbed \in DigestMessages(Construct(variant).state.rate_in_bytes)
  /\ hasher = hasher_update(Construct(variant), absorbed).self
  /\ perms = [absorb |-> hasher_update(Construct(variant), absorbed).perms, finalize |-> 0, squeeze |-> 0]
  /\ reader = NoReader
  /\ digest = <<>>
  /\ nUpdates = 1
  /\ fresh = NoReader
  /\ out = <<>>
  /\ nReads = 0
  /\ last = "update"
  /\ maxIndex = hasher_update(Construct(variant), absorbed).top
  /\ other = NoOther
  /\ perm = NoPerm

NextDigest ==
  \/ Sha3Finalize
  \/ ShakeFinalize
  \/ ShakeFinalizeXof

SpecDigest == InitDigest /\ [][NextDigest]_vars

\* Construction with other parameters.  KeccakState::new takes any
\* (security_bits, delimiter); here it is called, as code inside the crate
\* can, with security_bits that are not a multiple of 4 (6, 130) and, for
\* comparison, with the standard 256.  All are below 4 * STATE_WIDTH, where
\* the subtraction of line 46 does not overflow, and leave a rate of at
\* least one byte.
ConfigVariants ==
  {[name |-> "KeccakState", macro |-> "none", security |-> 6, padding |-> PADDING_SHA3],
   [name |-> "KeccakState", macro |-> "none", security |-> 130, padding |-> PADDING_SHA3],
   [name |-> "KeccakState", macro |-> "none", security |-> 256, padding |-> PADDING_SHA3]}

InitConfig ==
  /\ variant \in ConfigVariants
  /\ hasher = Construct(variant)
  /\ reader = NoReader
  /\ digest = <<>>
  /\ absorbed = <<>>
  /\ nUpdates = 0
  /\ fresh = NoReader
  /\ out = <<>>
  /\ nReads = 0
  /\ perms = [absorb |-> 0, finalize |-> 0, squeeze |-> 0]
  /\ last = "new"
  /\ maxIndex = -1
  /\ other = NoOther
  /\ perm = NoPerm

NextConfig ==
  \/ Update
  \/ KeccakFinalize
  \/ Read

SpecConfig == InitConfig /\ [][NextConfig]_vars

(***************************************************************************)
(* Properties.                                                             *)
(***************************************************************************)
\* The context a fresh hasher of this variant reaches by one update call.
OneCall(input) == KeccakState_update(Construct(variant).state, input).self

\* C1: streaming equivalence.  After every update call the context (state
\* bytes, position, rate, delimiter) equals the context a fresh hasher reaches
\* by absorbing the concatenation of all chunks in one update call, and the
\* finalized output, a function of the context alone, is therefore the same.
C1_StreamingEquivalence ==
  [][last' = "update" => hasher'.state = OneCall(absorbed')]_vars
\* Two non-empty chunks whose concatenation crosses a block boundary.
C1_Witness ==
  /\ nUpdates = 2
  /\ last = "update"
  /\ Len(absorbed) = 2 * hasher.state.rate_in_bytes - 2
  /\ perms.absorb = 1
  /\ hasher.state.pos = hasher.state.rate_in_bytes - 2

\* C2: prefix stability.  After every read call the bytes read so far from
\* the cursor, concatenated, are the bytes of one single read of their total
\* length from the cursor as finalize returned it, and the cursor is left
\* where that single read leaves it.
C2_PrefixStability ==
  [][last' = "read" =>
       LET one == XofReader_read(fresh', Len(out'))
       IN /\ out' = one.buf
          /\ reader' = one.self]_vars
\* Two reads, one of a whole block: one of them ends on or crosses the boundary.
C2_Witness ==
  /\ variant.macro = "shake"
  /\ nReads = 2
  /\ Len(out) = reader.rate_in_bytes + Len(Shake256_Rescue)
  /\ perms.squeeze = 1
  /\ reader.pos = Len(Shake256_Rescue)

\* C3: finalize is pure.  Every finalize call leaves the hasher's context
\* (state bytes, position, rate, delimiter) as it was, and a second finalize
\* call on the unchanged context returns a cursor equal to the first in state,
\* position and rate.
C3_FinalizeIsPure ==
  [][last' \in {"finalize", "refinalize", "digest"} =>
       /\ hasher' = hasher
       /\ last' = "refinalize" => reader' = reader]_vars
\* A second finalize call after some input was absorbed.
C3_Witness ==
  /\ last = "refinalize"
  /\ Len(absorbed) > 0
  /\ reader = fresh
  /\ reader.pos = 0

\* C4: Keccak-256 and Keccak-512 of the empty input (no update call) are the
\* known-answer vectors.
C4_KeccakEmptyVectors ==
  (last = "digest" /\ nUpdates = 0) =>
    /\ variant.name = "Keccak256" => digest = Keccak256_Empty
    /\ variant.name = "Keccak512" => digest = Keccak512_Empty
C4_Witness ==
  /\ variant.name = "Keccak512"
  /\ last = "digest"
  /\ nUpdates = 0
  /\ digest = Keccak512_Empty

\* C5: SHA3-256 of "The quick brown fox jumps over the lazy dog", absorbed in
\* one update call or in several, is the known-answer vector.
C5_Sha3FoxVector ==
  (variant.name = "Sha3_256" /\ last = "digest" /\ absorbed = Fox) => digest = Sha3_256_Fox
\* The message absorbed in two update calls.
C5_Witness ==
  /\ variant.name = "Sha3_256"
  /\ last = "digest"
  /\ nUpdates = 2
  /\ absorbed = Fox1 \o Fox2
  /\ digest = Sha3_256_Fox

\* C6: SHAKE256 of "Rescue-XLIX": the first 10 bytes read from the finalized
\* cursor (and the 10-byte result of finalize) are the known-answer vector.
C6_ShakeRescueVector ==
  (variant.name = "Shake256" /\ absorbed = Rescue) =>
    /\ (nReads = 1 /\ Len(out) = Len(Shake256_Rescue)) => out = Shake256_Rescue
    /\ (last = "digest" /\ Len(digest) = Len(Shake256_Rescue)) => digest = Shake256_Rescue
C6_Witness ==
  /\ variant.name = "Shake256"
  /\ absorbed = Rescue
  /\ nReads = 1
  /\ out = Shake256_Rescue

\* C7: the padding-boundary branch.  With the delimiter XORed into
\* state[pos]: if the delimiter has bit 0x80 set and pos = rate_in_bytes - 1,
\* finalize permutes, XORs 0x80 into state[rate_in_bytes - 1] and permutes
\* again (two permutations); in every other case both XORs go into the same
\* block and one permutation follows the 0x80 XOR.
C7_PaddingBoundary ==
  last \in {"finalize", "digest"} =>
    LET ctx == hasher.state
        delimited == [ctx.state EXCEPT ![ctx.pos + 1] = XorU8(@, ctx.delimiter)]
        Close(block) == [block EXCEPT ![ctx.rate_in_bytes] = XorU8(@, 128)]
    IN IF (ctx.delimiter \div 128) % 2 = 1 /\ ctx.pos = ctx.rate_in_bytes - 1
       THEN /\ perms.finalize = 2
            /\ fresh.state = keccak_f1600(Close(keccak_f1600(delimited)))
       ELSE /\ perms.finalize = 1
            /\ fresh.state = keccak_f1600(Close(delimited))
\* The extra permutation is taken.
C7_Witness ==
  /\ last = "finalize"
  /\ hasher.state.delimiter >= 128
  /\ hasher.state.pos = hasher.state.rate_in_bytes - 1
  /\ perms.finalize = 2

\* C8: a fixed-digest finalize returns security_bits / 8 bytes (28, 32, 48,
\* 64), the first bytes of the squeezed stream: one read of that length on
\* the cursor the context's finalize returned.  A SHAKE finalize::<N> returns
\* what finalize_xof followed by one read of N bytes returns.
C8_DigestIsFirstRead ==
  last = "digest" =>
    IF variant.macro = "sha3"
    THEN /\ Len(digest) = variant.security \div 8
         /\ Len(digest) = CASE variant.security = 224 -> 28
                            [] variant.security = 256 -> 32
                            [] variant.security = 384 -> 48
                            [] variant.security = 512 -> 64
         /\ digest = XofReader_read(KeccakState_finalize(hasher.state).reader, Len(digest)).buf
         /\ digest = SubSeq(fresh.state, 1, Len(digest))
    ELSE digest = XofReader_read(shake_finalize_xof(hasher).reader, Len(digest)).buf
C8_Witness ==
  /\ variant.name = "Sha3_512"
  /\ last = "digest"
  /\ Len(absorbed) > 0
  /\ Len(digest) = 64
  /\ digest = SubSeq(fresh.state, 1, 64)

\* C9: variant parameters.  Each of the ten hashers has rate_in_bytes =
\* 200 - security_bits / 4, which is the standard's rate (1152, 1088, 832, 576
\* bits for the 224/256/384/512 variants, 1344 for SHAKE128, 1088 for
\* SHAKE256) divided by 8, rate + capacity = 1600 bits, the rate a multiple of
\* 8 bits, and delimiter 0x06 (SHA3), 0x01 (Keccak) or 0x1F (SHAKE).
C9_VariantParameters ==
  variant.macro \in {"sha3", "shake"} =>
    LET ctx == hasher.state
        n == variant.name
        rateBits == CASE n \in {"Sha3_224", "Keccak224"} -> 1152
                      [] n \in {"Sha3_256", "Keccak256", "Shake256"} -> 1088
                      [] n \in {"Sha3_384", "Keccak384"} -> 832
                      [] n \in {"Sha3_512", "Keccak512"} -> 576
                      [] n = "Shake128" -> 1344
        rateBytes == CASE n \in {"Sha3_224", "Keccak224"} -> 144
                       [] n \in {"Sha3_256", "Keccak256", "Shake256"} -> 136
                       [] n \in {"Sha3_384", "Keccak384"} -> 104
                       [] n \in {"Sha3_512", "Keccak512"} -> 72
                       [] n = "Shake128" -> 168
        capacityBits == 2 * variant.security
    IN /\ ctx.rate_in_bytes = 200 - variant.security \div 4
       /\ ctx.rate_in_bytes = rateBytes
       /\ 8 * ctx.rate_in_bytes = rateBits
       /\ rateBits + capacityBits = 1600
       /\ rateBits % 8 = 0
       /\ ctx.delimiter = CASE n \in {"Sha3_224", "Sha3_256", "Sha3_384", "Sha3_512"} -> 6
                            [] n \in {"Keccak224", "Keccak256", "Keccak384", "Keccak512"} -> 1
                            [] n \in {"Shake128", "Shake256"} -> 31
C9_Witness ==
  /\ variant.name = "Shake128"
  /\ last = "update"
  /\ hasher.state.rate_in_bytes = 168
  /\ hasher.state.delimiter = 31

\* C10: the position invariant.  In every context reached from construction
\* by update calls, 0 <= pos < rate_in_bytes.
C10_PositionInRange ==
  /\ hasher.state.pos >= 0
  /\ hasher.state.pos < hasher.state.rate_in_bytes
\* Two update calls that together absorb exactly one block.
C10_Witness ==
  /\ last = "update"
  /\ nUpdates = 2
  /\ Len(absorbed) = hasher.state.rate_in_bytes
  /\ perms.absorb = 1
  /\ hasher.state.pos = 0

\* C11: no failure at data-processing time.  For each of the ten hashers,
\* through any update calls (empty chunks included), finalize and reads, every
\* index at which a State array is indexed is below rate_in_bytes, which is at
\* most 200, so no access is out of bounds; rate_in_bytes - 1 does not
\* underflow, and a position never exceeds the rate, so pos += 1 cannot
\* overflow.
C11_NoFailure ==
  variant.macro \in {"sha3", "shake"} =>
    /\ hasher.state.rate_in_bytes - 1 >= 0
    /\ hasher.state.rate_in_bytes <= 200
    /\ maxIndex < hasher.state.rate_in_bytes
    /\ hasher.state.pos >= 0
    /\ hasher.state.pos + 1 <= hasher.state.rate_in_bytes
    /\ fresh # NoReader => (fresh.rate_in_bytes = hasher.state.rate_in_bytes /\ fresh.pos = 0)
    /\ reader # NoReader =>
         /\ reader.rate_in_bytes = hasher.state.rate_in_bytes
         /\ reader.pos >= 0
         /\ reader.pos + 1 <= reader.rate_in_bytes
\* Update calls that filled a block, then finalize and reads that ran through
\* a block: the last byte of the rate was indexed.
C11_Witness ==
  /\ variant.macro = "shake"
  /\ last = "read"
  /\ perms.absorb >= 1
  /\ perms.squeeze >= 1
  /\ maxIndex = hasher.state.rate_in_bytes - 1

\* C12: configuration errors fail fast at construction.  A context whose
\* parameters violate rate + capacity = 1600 bits (capacity being twice
\* security_bits), rate a multiple of 8 bits, or rate > 0, is rejected when it
\* is constructed, so it is never finalized into a cursor that yields output
\* bytes.
C12_ConfigRejected ==
  LET rateBits == 8 * hasher.state.rate_in_bytes
      capacityBits == 2 * variant.security
      valid == rateBits + capacityBits = 1600 /\ rateBits % 8 = 0 /\ rateBits > 0
  IN ~valid => out = <<>>

\* C13: cursor independence.  Each finalize call yields its own cursor: the
\* call that derives the second cursor leaves the context and the first
\* cursor as they were, a read on one cursor changes neither the context nor
\* the other cursor, and however the reads interleave the two cursors emit
\* the same byte stream: the bytes read from them agree on their common
\* length, and the cursors are equal when the same number of bytes was read.
C13_CursorIndependence ==
  [][/\ last' \in {"derive", "read", "readother"} => hasher' = hasher
     /\ last' = "derive" => (reader' = reader /\ out' = out /\ other'.reader.pos = 0)
     /\ last' = "read" => other' = other
     /\ last' = "readother" => (reader' = reader /\ out' = out)
     /\ other'.reader # NoReader =>
          /\ \A k \in 1..Len(out') : k <= Len(other'.out) => out'[k] = other'.out[k]
          /\ Len(out') = Len(other'.out) => reader' = other'.reader]_vars
\* Both cursors were read, the second one last and across a block boundary,
\* after the first one had been read before the second was derived or read.
C13_Witness ==
  /\ last = "readother"
  /\ nReads >= 1
  /\ other.nReads = 2
  /\ Len(other.out) > other.reader.rate_in_bytes
  /\ Len(out) # Len(other.out)

\* C14: the security level changes the output.  For a digest of an input
\* absorbed in at most one update call, every other hasher with the same
\* delimiter and a different security_bits gives, for the same input, a digest
\* that differs from it within their common length (for SHAKE, within the
\* length read).  In particular the Keccak-224 digest of the empty input is
\* its known-answer vector and not the first 28 bytes of the Keccak-256 one.
C14_SecurityChangesOutput ==
  (last = "digest" /\ nUpdates <= 1) =>
    /\ \A v \in Sha3Variants \cup ShakeVariants :
         (v.macro = variant.macro /\ v.padding = variant.padding /\ v.security # variant.security) =>
           LET ctx == hasher_update(Construct(v), absorbed).self
               d == IF v.macro = "sha3" THEN sha3_finalize(ctx, v.security).output
                    ELSE shake_finalize(ctx, Len(digest)).output
               n == IF Len(d) < Len(digest) THEN Len(d) ELSE Len(digest)
           IN /\ ctx.state.rate_in_bytes # hasher.state.rate_in_bytes
              /\ n > 0
              /\ SubSeq(d, 1, n) # SubSeq(digest, 1, n)
    /\ (variant.name = "Keccak224" /\ absorbed = <<>>) =>
         /\ digest = Keccak224_Empty
         /\ digest # SubSeq(Keccak256_Empty, 1, 28)
C14_Witness ==
  /\ variant.name = "Keccak224"
  /\ last = "digest"
  /\ nUpdates = 0
  /\ digest = Keccak224_Empty
  /\ digest # SubSeq(Keccak256_Empty, 1, 28)

\* C15: the absorb block protocol.  After a fresh context has absorbed n
\* bytes over any number of update calls, pos = n mod rate_in_bytes and update
\* has run the permutation floor(n / rate_in_bytes) times: eagerly, so at n =
\* rate_in_bytes it has run once and pos is 0.  The bytes are XORed into the
\* state in input order: before the first block is full the state is the
\* input followed by zeros, and from then until the second is full it is the
\* permuted first block with the following input bytes XORed into its start.
C15_AbsorbProtocol ==
  last = "update" =>
    LET ctx == hasher.state
        rate == ctx.rate_in_bytes
        n == Len(absorbed)
        block == [i \in 1..200 |-> IF i <= rate THEN absorbed[i] ELSE 0]
    IN /\ ctx.pos = n % rate
       /\ perms.absorb = n \div rate
       /\ n < rate =>
            \A i \in 1..200 : ctx.state[i] = IF i <= n THEN absorbed[i] ELSE 0
       /\ (rate <= n /\ n < 2 * rate) =>
            LET permuted == keccak_f1600(block)
            IN \A i \in 1..200 :
                 ctx.state[i] = IF i <= n - rate THEN XorU8(permuted[i], absorbed[rate + i])
                                ELSE permuted[i]
\* Two update calls whose input runs past the first block.
C15_Witness ==
  /\ last = "update"
  /\ nUpdates = 2
  /\ Len(absorbed) > hasher.state.rate_in_bytes
  /\ perms.absorb = 1
  /\ hasher.state.pos = Len(absorbed) - hasher.state.rate_in_bytes

\* keccak_f1600 applied m times.
RECURSIVE Permuted(_, _)
Permuted(state, m) == IF m = 0 THEN state ELSE keccak_f1600(Permuted(state, m - 1))

\* C16: the squeeze block protocol.  The cursor finalize returns has position
\* 0 and the context's rate_in_bytes.  After n bytes have been read from it in
\* total, 0 <= pos < rate_in_bytes, pos = n mod rate_in_bytes, the reads have
\* run the permutation floor(n / rate_in_bytes) times, and byte k of the
\* stream is byte k mod rate of the finalized state permuted floor(k / rate)
\* times.
C16_SqueezeProtocol ==
  /\ fresh # NoReader => (fresh.pos = 0 /\ fresh.rate_in_bytes = hasher.state.rate_in_bytes)
  /\ last = "read" =>
       LET rate == fresh.rate_in_bytes
           n == Len(out)
           blocks == [m \in 1..((n \div rate) + 1) |-> Permuted(fresh.state, m - 1)] \o <<>>
       IN /\ reader.rate_in_bytes = rate
          /\ 0 <= reader.pos
          /\ reader.pos < rate
          /\ reader.pos = n % rate
          /\ perms.squeeze = n \div rate
          /\ reader.state = blocks[(n \div rate) + 1]
          /\ \A k \in 0..(n - 1) : out[k + 1] = blocks[(k \div rate) + 1][(k % rate) + 1]
\* Two reads that together run past the first block of output.
C16_Witness ==
  /\ last = "read"
  /\ nReads = 2
  /\ Len(out) > reader.rate_in_bytes
  /\ perms.squeeze = 1
  /\ reader.pos = Len(out) - reader.rate_in_bytes
  /\ reader.state # fresh.state

\* One step of the rho/pi walk as a step of the model: the walk moves from
\* (x, y) to (y, (2x + 3y) mod 5), the lane there receives the rolling value
\* rotated left by (t + k)(t + k + 1) / 2 (modulo 64) at step t, the rolling
\* value becomes the lane displaced, and no other lane changes.
RhoPiMoves(k) ==
  LET t == perm.t
      nx == perm.y
      ny == (2 * perm.x + 3 * perm.y) % 5
      offset == ((t + k) * (t + k + 1)) \div 2
  IN /\ t = 0 => (perm.x = 1 /\ perm.y = 0 /\ perm.current = perm.lanes[L(1, 0)])
     /\ perm'.x = nx
     /\ perm'.y = ny
     /\ perm'.current = perm.lanes[L(nx, ny)]
     /\ perm'.lanes[L(nx, ny)] = rotate_left(perm.current, offset % 64)
     /\ \A i \in 1..25 : i # L(nx, ny) => perm'.lanes[i] = perm.lanes[i]
     /\ perm'.t = t + 1

\* C17, as stated: in each round, starting from lane (1,0), at step t = 0..23
\* the rolling value is moved to (y, (2x + 3y) mod 5) and rotated left by the
\* triangular offset t(t + 1)/2.
C17_RhoPiOffsetT ==
  [][(perm.stage = "rhopi" /\ perm.t \in 0..23) => RhoPiMoves(0)]_vars
\* C17, amended: in each round, starting from lane (1,0), at step t = 0..23
\* the rolling value is moved to (y, (2x + 3y) mod 5) and rotated left (modulo
\* 64) by the triangular offset (t + 1)(t + 2)/2.
C17_RhoPiOffsetT1 ==
  [][(perm.stage = "rhopi" /\ perm.t \in 0..23) => RhoPiMoves(1)]_vars
\* The walk of the last round is complete and has moved lanes that are not
\* invariant under rotation.
C17_Witness ==
  /\ perm.stage = "chi"
  /\ perm.round = 23
  /\ perm.t = 24
  /\ perm.x = 1
  /\ perm.y = 0
  /\ perm.lanes[L(1, 0)] # rotate_left(perm.lanes[L(1, 0)], 1)

\* The round constants of Keccak-f[1600], RC[0] .. RC[23].
StandardRC ==
  << <<1, 0, 0, 0>>, <<32898, 0, 0, 0>>, <<32906, 0, 0, 32768>>,
    <<32768, 32768, 0, 32768>>, <<32907, 0, 0, 0>>, <<1, 32768, 0, 0>>,
    <<32897, 32768, 0, 32768>>, <<32777, 0, 0, 32768>>, <<138, 0, 0, 0>>,
    <<136, 0, 0, 0>>, <<32777, 32768, 0, 0>>, <<10, 32768, 0, 0>>,
    <<32907, 32768, 0, 0>>, <<139, 0, 0, 32768>>, <<32905, 0, 0, 32768>>,
    <<32771, 0, 0, 32768>>, <<32770, 0, 0, 32768>>, <<128, 0, 0, 32768>>,
    <<32778, 0, 0, 0>>, <<10, 32768, 0, 32768>>, <<32897, 32768, 0, 32768>>,
    <<32896, 0, 0, 32768>>, <<1, 32768, 0, 0>>, <<32776, 32768, 0, 32768>> >>

\* C18: the iota round constants.  The LFSR R is 1 when the permutation
\* starts and is carried from round to round; in round i iota XORs into lane
\* (0,0) exactly the standard round constant RC[i] and changes no other lane.
C18_IotaRoundConstants ==
  [][/\ (perm.stage = "theta" /\ perm.round = 0) => perm.r = 1
     /\ perm.stage = "iota" =>
          /\ perm.round \in 0..23
          /\ perm'.lanes = [perm.lanes EXCEPT ![L(0, 0)] = Xor64(@, StandardRC[perm.round + 1])]
          /\ perm'.round = perm.round + 1
     /\ perm.stage # "iota" => perm'.r = perm.r]_vars
\* The last round's iota has run.
C18_Witness ==
  /\ perm.stage = "done"
  /\ perm.round = 24
  /\ perm.lanes = keccak_f1600_on_lanes(perm.input)

\* C19: the theta step.  With C[x] the XOR of the five lanes of column x of
\* the lanes before theta and D[x] = C[(x - 1) mod 5] XOR rotl(C[(x + 1) mod
\* 5], 1), theta turns every lane (x, y) into lane[x][y] XOR D[x]: no lane is
\* computed from a column theta has already updated.
C19_Theta ==
  [][perm.stage = "theta" =>
       LET C(x) == Xor64(perm.lanes[L(x, 0)], Xor64(perm.lanes[L(x, 1)], Xor64(perm.lanes[L(x, 2)],
                     Xor64(perm.lanes[L(x, 3)], perm.lanes[L(x, 4)]))))
           D(x) == Xor64(C((x + 5 - 1) % 5), rotate_left(C((x + 1) % 5), 1))
       IN \A x \in 0..4 : \A y \in 0..4 :
            perm'.lanes[L(x, y)] = Xor64(perm.lanes[L(x, y)], D(x))]_vars
\* Theta has run in the last round, on lanes whose columns have odd parity.
C19_Witness ==
  /\ perm.stage = "rhopi"
  /\ perm.round = 23
  /\ perm.t = 0
  /\ perm.lanes # perm.input
  /\ perm.current = perm.lanes[L(1, 0)]

\* C20: the chi step.  For every row y and every x the new lane[x][y] is
\* old[x][y] XOR ((NOT old[(x + 1) mod 5][y]) AND old[(x + 2) mod 5][y]), where
\* old is the row before chi rewrites any of its lanes.
C20_Chi ==
  [][perm.stage = "chi" =>
       \A x \in 0..4 : \A y \in 0..4 :
         perm'.lanes[L(x, y)] =
           Xor64(perm.lanes[L(x, y)],
                 And64(Not64(perm.lanes[L((x + 1) % 5, y)]), perm.lanes[L((x + 2) % 5, y)]))]_vars
\* Chi has run in the last round.
C20_Witness ==
  /\ perm.stage = "iota"
  /\ perm.round = 23
  /\ perm.lanes[L(3, 0)] # perm.input[L(3, 0)]
  /\ perm.lanes[L(4, 4)] # perm.input[L(4, 4)]

\* C21: the lane view is a reversible round trip.  Every state buffer the
\* program holds, before and after every permutation, is exactly 200 bytes;
\* decomposing it into the lane grid gives as lane (x, y) the 8 bytes at
\* offset 8 * (x + 5 * y), least significant first, and recomposing the grid
\* gives the identical bytes; the offsets 8 * (x + 5 * y) + z cover each byte
\* index 0..199 exactly once.
C21_LaneRoundTrip ==
  /\ Cardinality({8 * (x + 5 * y) + z : x \in 0..4, y \in 0..4, z \in 0..7}) = 200
  /\ {8 * (x + 5 * y) + z : x \in 0..4, y \in 0..4, z \in 0..7} = 0..199
  /\ \A buf \in {hasher.state.state} \cup (IF fresh = NoReader THEN {} ELSE {fresh.state})
                                      \cup (IF reader = NoReader THEN {} ELSE {reader.state}) :
       /\ Len(buf) = 200
       /\ Len(LanesOf(buf)) = 25
       /\ \A x \in 0..4 : \A y \in 0..4 : \A k \in 1..4 :
            LanesOf(buf)[L(x, y)][k] =
              buf[8 * (x + 5 * y) + 2 * k - 1] + 256 * buf[8 * (x + 5 * y) + 2 * k]
       /\ BytesOf(LanesOf(buf)) = buf
\* A cursor whose state has been permuted by finalize and again by a read.
C21_Witness ==
  /\ last = "read"
  /\ perms.squeeze >= 1
  /\ Len(reader.state) = 200
  /\ reader.state # fresh.state
  /\ BytesOf(LanesOf(reader.state)) = reader.state

\* C22: the capacity is untouched outside the permutation.  Every index at
\* which update, finalize and read address the state is in [0, rate_in_bytes).
\* An update call that fills no block leaves the bytes [rate_in_bytes, 200)
\* as they were, and one that fills a block leaves them as the permutation of
\* that block (the old capacity with the input XORed into the rate) set
\* them.  The block finalize permutes has the context's capacity bytes, the
\* delimiter and 0x80 being XORed below the rate.  A read that does not
\* permute leaves the whole state as it was, and the bytes copied out, by a
\* read up to the block boundary or into a fixed digest, are bytes of the
\* state below the rate.
C22_CapacityUntouched ==
  [][LET ctx == hasher.state
         rate == ctx.rate_in_bytes
         Cap(buf) == SubSeq(buf, rate + 1, 200)
         WithCap(buf, from) == [i \in 1..200 |-> IF i > rate THEN from[i] ELSE buf[i]]
     IN /\ maxIndex' < rate
        /\ last' = "update" =>
             LET input == SubSeq(absorbed', Len(absorbed) + 1, Len(absorbed'))
                 room == rate - ctx.pos
                 filled == [i \in 1..200 |->
                              IF i > ctx.pos /\ i <= rate THEN XorU8(ctx.state[i], input[i - ctx.pos])
                              ELSE ctx.state[i]]
             IN /\ Len(input) < room =>
                     (perms'.absorb = perms.absorb /\ Cap(hasher'.state.state) = Cap(ctx.state))
                /\ (Len(input) >= room /\ Len(input) < room + rate) =>
                     (perms'.absorb = perms.absorb + 1
                        /\ Cap(hasher'.state.state) = Cap(keccak_f1600(filled)))
        /\ last' \in {"finalize", "refinalize", "digest"} =>
             /\ Cap(hasher'.state.state) = Cap(ctx.state)
             /\ perms'.finalize = 1 =>
                  fresh'.state = keccak_f1600(WithCap(PaddedBlock(ctx), ctx.state))
        /\ last' = "digest" =>
             \A j \in 1..Len(digest') : j <= rate => digest'[j] = fresh'.state[j]
        /\ last' = "read" =>
             /\ perms'.squeeze = perms.squeeze => reader'.state = reader.state
             /\ \A j \in 1..(Len(out') - Len(out)) :
                  j <= rate - reader.pos => out'[Len(out) + j] = reader.state[reader.pos + j]]_vars
\* A block was absorbed and a block squeezed: the capacity bytes of the
\* context and of the cursor have been set by permutations.
C22_Witness ==
  /\ last = "read"
  /\ perms.absorb >= 1
  /\ perms.squeeze >= 1
  /\ maxIndex < hasher.state.rate_in_bytes
  /\ \E i \in (hasher.state.rate_in_bytes + 1)..200 : hasher.state.state[i] # 0
  /\ \E i \in (reader.rate_in_bytes + 1)..200 : reader.state[i] # fresh.state[i]

\* C23: with the delimiters of the standard variants (0x01, 0x06, 0x1F, none
\* with bit 0x80 set) finalize runs the permutation exactly once, whatever
\* the length of the absorbed message.  When pos = rate_in_bytes - 1 at
\* finalize time the delimiter and the closing bit land in the same byte:
\* state[rate_in_bytes - 1] is XORed with (delimiter XOR 0x80), no other byte
\* changes, and that block is permuted once.
C23_SinglePermutation ==
  last \in {"finalize", "refinalize", "digest"} =>
    LET ctx == hasher.state
        rate == ctx.rate_in_bytes
    IN /\ ctx.delimiter \in {1, 6, 31}
       /\ (ctx.delimiter \div 128) % 2 = 0
       /\ perms.finalize = 1
       /\ ctx.pos = rate - 1 =>
            fresh.state =
              keccak_f1600([ctx.state EXCEPT ![rate] = XorU8(@, XorU8(ctx.delimiter, 128))])
\* A finalize call at pos = rate_in_bytes - 1 after a block was absorbed.
C23_Witness ==
  /\ last = "digest"
  /\ Len(absorbed) = 2 * hasher.state.rate_in_bytes - 1
  /\ hasher.state.pos = hasher.state.rate_in_bytes - 1
  /\ perms.absorb = 1
  /\ perms.finalize = 1

\* C24: the rho/pi walk is a permutation of the 24 lanes other than (0,0).
\* Started at (1,0), the walk (x, y) -> (y, (2x + 3y) mod 5) never writes
\* (0,0) and never writes a position twice; after its 24 steps it has written
\* every position other than (0,0), the last one being (1,0).  Then lane
\* (0,0) is as the walk found it, and the lane at the k-th position written
\* is a rotation of the lane the walk found at the position written before
\* it (at (1,0) for the first): the 24 values found are each moved to one
\* destination, none lost and none duplicated.
C24_WalkIsPermutation ==
  perm.stage \in {"rhopi", "chi"} =>
    LET NonOrigin == {p \in (0..4) \X (0..4) : p # <<0, 0>>}
        visited == perm.visited
        From(k) == IF k = 1 THEN <<1, 0>> ELSE visited[k - 1]
    IN /\ Len(visited) = perm.t
       /\ \A k \in 1..Len(visited) : visited[k] \in NonOrigin
       /\ \A j, k \in 1..Len(visited) : j # k => visited[j] # visited[k]
       /\ perm.lanes[L(0, 0)] = perm.before[L(0, 0)]
       /\ perm.stage = "chi" =>
            /\ perm.t = 24
            /\ {visited[k] : k \in 1..24} = NonOrigin
            /\ visited[24] = <<1, 0>>
            /\ {From(k) : k \in 1..24} = NonOrigin
            /\ \A k \in 1..24 :
                 \E n \in 0..63 :
                   perm.lanes[L(visited[k][1], visited[k][2])] =
                     rotate_left(perm.before[L(From(k)[1], From(k)[2])], n)
\* The walk of the last round is complete.
C24_Witness ==
  /\ perm.stage = "chi"
  /\ perm.round = 23
  /\ Len(perm.visited) = 24
  /\ perm.visited[1] = <<0, 2>>
  /\ perm.visited[24] = <<1, 0>>
  /\ perm.lanes # perm.before

\* C25: the fixed digest lies within the first block of output.  For every
\* fixed-digest hasher security_bits / 8 is strictly smaller than
\* rate_in_bytes = 200 - security_bits / 4 (28 < 144, 32 < 136, 48 < 104,
\* 64 < 72), so the read inside finalize never runs the permutation, and the
\* digest is bytes [0, security_bits / 8) of the padded and permuted state.
C25_DigestWithinFirstBlock ==
  (variant.macro = "sha3" /\ last = "digest") =>
    LET n == variant.security \div 8
        rate == hasher.state.rate_in_bytes
    IN /\ rate = 200 - variant.security \div 4
       /\ n < rate
       /\ <<n, rate>> \in {<<28, 144>>, <<32, 136>>, <<48, 104>>, <<64, 72>>}
       /\ Len(digest) = n
       /\ perms.squeeze = 0
       /\ fresh.state = keccak_f1600(PaddedBlock(hasher.state))
       /\ \A j \in 1..n : digest[j] = fresh.state[j]
\* The tightest case, 64 < 72, after a message that filled a block.
C25_Witness ==
  /\ variant.name = "Keccak512"
  /\ last = "digest"
  /\ hasher.state.rate_in_bytes = 72
  /\ Len(digest) = 64
  /\ perms.absorb = 1
  /\ perms.squeeze = 0

====
